---- MODULE Spec2Model ----
(***************************************************************************)
(* Model of the lX Drive reconciliation engine: SyncManager (scheduler and *)
(* pair executor), the ChangeHandler suppression flag, the AccountManager  *)
(* status/last_sync store and the RcloneWrapper streaming interface.       *)
(*                                                                         *)
(* Threads: thread 0 is the periodic loop thread (_sync_loop); threads     *)
(* 1..MaxWorkers are the worker threads that sync_now / sync_pair_now      *)
(* start.  Every thread step is one atomic region of the Python code.      *)
(***************************************************************************)
EXTENDS Integers, Sequences, FiniteSets, TLC

\* ------------------------------------------------------------------ bounds
MaxWorkers == 2
MaxTime == 1
MaxLines == 1

\* ------------------------------------------------------- configuration
None == "None"
NoTime == -1

Accounts == {"a1"}
PairOrder == <<"p1", "p2">>
PairIds == {PairOrder[i] : i \in 1..Len(PairOrder)}
PairEnabled(a, p) == TRUE
\* Account.sync_interval, in the time unit of the model
SyncInterval == 1

LoopThread == 0
\* the thread of an earlier start() that is still alive after start() ran again
PrevLoopThread == -1
LoopThreads == {LoopThread, PrevLoopThread}
Workers == 1..MaxWorkers
Threads == LoopThreads \cup Workers

\* SyncStatus values
IDLE == "idle"
SYNCING == "syncing"
RESYNCING == "resyncing"
PAUSED == "paused"
ERROR == "error"

\* lock keys of _active_syncs
AcctKey(a) == a
PairKey(a, p) == a \o ":" \o p

\* ------------------------------------------------- tool output lines
\* A line is identified by its text; LineToks gives the substrings the
\* code tests for with "x in line" / "x in line_lower".
LockLine == "ERROR : Failed to bisync: prior lock file found: /cache/p.lck"
AuthLine == "ERROR : Failed to bisync: token expired, unauthorized: login"
GenericLine == "ERROR : network unreachable"
IgnoringLine == "ERROR : ignoring listing checksum"
RmLockLine == "ERROR : cannot remove lockfile"
RetryLine == "RETRY_NEEDED"
BlankLine == ""
ExitLine(rc) ==
    IF rc = 143 THEN "ERROR: El proceso terminó con código 143"
    ELSE "ERROR: El proceso terminó con código 1"
CompletedMsg == "Sincronización completada"
NotInstalledMsg == "rclone no está instalado"

LineToks(l) ==
    CASE l = LockLine -> {"error", "failed", "prior lock", "lock file found"}
      [] l = AuthLine -> {"error", "failed", "token", "expired", "unauthorized", "login"}
      [] l = GenericLine -> {"error"}
      [] l = IgnoringLine -> {"error", "ignoring"}
      [] l = RmLockLine -> {"error", "cannot remove lockfile"}
      [] l = RetryLine -> {"RETRY_NEEDED"}
      [] l = ExitLine(143) -> {"error", "código 143"}
      [] l = ExitLine(1) -> {"error"}
      [] OTHER -> {}

ProcLines == {LockLine, AuthLine, GenericLine, IgnoringLine, RmLockLine, RetryLine, BlankLine}
RetCodes == {0, 1, 143}

SeqsUpTo(S, n) == UNION {[1..k -> S] : k \in 0..n}
ProcOutputs == SeqsUpTo(ProcLines, MaxLines)

\* RcloneWrapper._run_command_stream: the process lines, then the exit-code
\* line when the return code is not zero.
RunCommandStream(lines, rc) ==
    IF rc # 0 THEN Append(lines, ExitLine(rc)) ELSE lines

\* RcloneWrapper.bisync_stream yields every line of _run_command_stream.
BisyncStream(lines, rc) == RunCommandStream(lines, rc)

FatalTokens == {"error", "fatal", "failed", "critical"}

\* the benign-exception list of run_bisync
IsBenign(l) ==
    \/ "ignoring" \in LineToks(l)
    \/ LineToks(l) \cap {"código 143", "código 130", "signal", "terminated"} # {}
    \/ LineToks(l) \cap {"cannot remove lockfile", "no such file or directory"} # {}

\* a line that sets inner_success = False and inner_message = line
IsFatalLine(l) ==
    /\ l # BlankLine
    /\ "RETRY_NEEDED" \notin LineToks(l)
    /\ LineToks(l) \cap FatalTokens # {}
    /\ ~IsBenign(l)

\* run_bisync's loop over the stream: (inner_success, inner_message)
RECURSIVE RunBisyncFrom(_, _, _)
RunBisyncFrom(stream, i, acc) ==
    IF i > Len(stream) THEN acc
    ELSE RunBisyncFrom(stream, i + 1,
            IF IsFatalLine(stream[i]) THEN [ok |-> FALSE, msg |-> stream[i]] ELSE acc)

RunBisync(stream) == RunBisyncFrom(stream, 1, [ok |-> TRUE, msg |-> CompletedMsg])

\* the lock-conflict test of _sync_single_pair on the attempt's message
IsLockMessage(m) == "lock file found" \in LineToks(m) \/ "prior lock" \in LineToks(m)

HasLockLine(stream) == \E i \in 1..Len(stream) : stream[i] = LockLine

\* the first line of the stream that run_bisync takes as fatal, None if there is none
FirstFatal(stream) ==
    LET idx == {i \in 1..Len(stream) : IsFatalLine(stream[i])}
    IN IF idx = {} THEN None
       ELSE stream[CHOOSE i \in idx : \A j \in idx : i <= j]


\* ------------------------------------------------------------------ state
VARIABLES
    running,          \* SyncManager._running
    watchers,         \* SyncManager._watchers: pairs whose local path has a handler
    active,           \* SyncManager._active_syncs
    pending,          \* SyncManager._pending_syncs
    lastSyncTimes,    \* SyncManager._last_sync_times
    acctStatus,       \* Account.status
    acctError,        \* Account.error_message
    pairStatus,       \* SyncPair.status
    lastSync,         \* SyncPair.last_sync
    syncInProgress,   \* ChangeHandler._sync_in_progress, per watched pair
    rclonePresent,    \* the rclone executable is found and can be started
    toolOutputs,      \* the outputs (lines, return code) the external tool may produce
    lastCall,         \* the sync_now / sync_pair_now call made by the last step, if any
    now,              \* wall clock
    thr,              \* per-thread position and locals
    \* the ChangeHandler of the first pair's local path
    wTime,            \* time.time() as seen by the handler, in seconds
    liveTimers,       \* expiry times of the debounce timers started and neither cancelled nor fired
    timerRef,         \* ChangeHandler._timer: expiry time of the timer it refers to
    pendingDeletes,   \* ChangeHandler._pending_deletes: path -> time of the delete
    pendingRenames,   \* ChangeHandler._pending_renames
    movedDirs,        \* ChangeHandler._moved_directories
    triggers,         \* number of calls of ChangeHandler.callback so far
    enqueued,         \* every tuple appended to _pending_renames so far, in order
    drained,          \* every tuple returned by get_and_clear_renames so far, in order
    lastEvent,        \* time of the last event that was not ignored
    events,           \* number of events that were not ignored so far
    triggersAtDelete, \* per path, the value of triggers when its delete was recorded
    cleanupTimers,    \* start times of the cleanup timers of on_deleted that have not fired
    dirMoveTime,      \* time of the last directory move
    lastPath,         \* path of the last event that was not ignored
    \* the parser of the tool's output inside run_bisync
    pClock,           \* time.time() as seen by the parser, in seconds
    recentEvents,     \* recent_events: the rolling buffer of extracted events
    activity,         \* the calls of the _on_file_activity callback so far, in order
    history,          \* the lines given to the parser so far, with their times
    \* the cache directory of the tool
    lockFiles,        \* per lock file (*.lck): absent, younger or older than 5 minutes
    \* the account record of AccountManager and its file
    memRecord,        \* AccountManager._accounts[id]: the record in memory
    diskRecord,       \* accounts.json: empty, the text of a record, or a broken text
    saver             \* per writer: position in _save_accounts, updates still to make, snapshot

watch == <<wTime, liveTimers, timerRef, pendingDeletes, pendingRenames, movedDirs,
           triggers, enqueued, drained, lastEvent, events, triggersAtDelete, dirMoveTime, lastPath,
           cleanupTimers>>

parser == <<pClock, recentEvents, activity, history>>

\* the state outside the manager, the handler and the parser
aux == <<lockFiles, memRecord, diskRecord, saver>>

vars == <<running, watchers, active, pending, lastSyncTimes, acctStatus, acctError,
          pairStatus, lastSync, syncInProgress, rclonePresent, toolOutputs, lastCall,
          now, thr, watch, parser, aux>>

service == <<running, watchers, pending>>
store == <<acctStatus, acctError, lastSync>>
env == <<rclonePresent, toolOutputs, now>>

\* cb is the last callback the thread's run has invoked: "start" (_on_sync_start),
\* "complete" (_on_sync_complete) or "error" (_on_sync_error alone); tried is the
\* set of tiers whose run_bisync call has returned a failure in the current pair;
\* fatal is the first fatal line the last attempt has read, None if it read none;
\* holds says that the tool the thread is waiting for has written its lock artifact
FreeThread ==
    [pc |-> "free", kind |-> None, acct |-> None, idx |-> 0, handler |-> FALSE,
     tier |-> 0, resync |-> FALSE, lock1 |-> FALSE, ok |-> TRUE, msg |-> None,
     exc |-> None, allOk |-> TRUE, todo |-> <<>>, tnow |-> 0, cb |-> None,
     tried |-> {}, fatal |-> None, holds |-> FALSE]

AccountOrder == <<"a1">>

\* lastCall is the entry-point call made by the last step and what it returned
NoCall == [key |-> None, ret |-> FALSE]

AllOutputs == [lines : ProcOutputs, rc : RetCodes]

\* the paths of the watched folder: two files of one directory with one
\* extension, a temporary file, and a directory that is moved with its file
WFiles == {"d/a.txt", "d/b.txt", "d/a.txt.partial", "e/x.txt", "f/x.txt"}
WDirs == {"e", "f"}
WPaths == WFiles \cup WDirs

\* the lock files of ~/.cache/rclone/bisync: the one of the first pair and one
\* of another bisync; each is absent, not older than 300 s, or older
LockNames == {PairOrder[1], "other"}
LockStates == {"none", "fresh", "old"}

\* The writers of one account record: the runs of its two pairs, each of which
\* sets pair.last_sync and calls update (lines 909-910) and then calls
\* set_status (line 641), and the settings dialog, which edits the record in
\* place and calls update.
Writers == {"run1", "run2", "ui"}
WriterOps(w) ==
    CASE w = "run1" -> <<[op |-> "last_sync", pair |-> PairOrder[1]], [op |-> "status"]>>
      [] w = "run2" -> <<[op |-> "last_sync", pair |-> PairOrder[2]], [op |-> "status"]>>
      [] OTHER -> <<[op |-> "edit"]>>

\* the record of a stored account before its runs end
StoredRecord == [status |-> SYNCING, last |-> [p \in PairIds |-> NoTime], interval |-> SyncInterval]

\* the contents of accounts.json
FileOf(rec) == [kind |-> "json", rec |-> rec]
EmptyFile == [kind |-> "empty", rec |-> None]
CorruptFile == [kind |-> "corrupt", rec |-> None]

\* AccountManager._load_accounts: memory and file agree
InitSave ==
    /\ memRecord = StoredRecord
    /\ diskRecord = FileOf(StoredRecord)
    /\ saver = [w \in Writers |-> [pc |-> "idle", todo |-> WriterOps(w), snap |-> None]]

\* _sync_single_pair: recent_events = [] at the start of a run
InitParse ==
    /\ pClock = 0
    /\ recentEvents = <<>>
    /\ activity = <<>>
    /\ history = <<>>

\* ChangeHandler.__init__
InitWatch ==
    /\ wTime = 0
    /\ liveTimers = {}
    /\ timerRef = NoTime
    /\ pendingDeletes = [p \in WFiles |-> NoTime]
    /\ pendingRenames = <<>>
    /\ movedDirs = {}
    /\ triggers = 0
    /\ enqueued = <<>>
    /\ drained = <<>>
    /\ lastEvent = NoTime
    /\ triggersAtDelete = [p \in WFiles |-> 0]
    /\ cleanupTimers = {}
    /\ dirMoveTime = NoTime
    /\ lastPath = ""
    /\ events = 0

InitProgram ==
    /\ running = FALSE
    /\ watchers = {}
    /\ active = {}
    /\ pending = {}
    /\ lastSyncTimes = [a \in Accounts |-> NoTime]
    /\ acctStatus = [a \in Accounts |-> IDLE]
    /\ acctError = [a \in Accounts |-> None]
    /\ pairStatus = [a \in Accounts |-> [p \in PairIds |-> IDLE]]
    /\ lastSync = [a \in Accounts |-> [p \in PairIds |-> NoTime]]
    /\ syncInProgress = [p \in PairIds |-> FALSE]
    /\ rclonePresent \in BOOLEAN
    /\ lastCall = NoCall
    /\ now = 0
    /\ thr = [t \in Threads |-> IF t \in LoopThreads THEN [FreeThread EXCEPT !.pc = "off"]
                                ELSE FreeThread]
    /\ InitWatch
    /\ InitParse
    /\ lockFiles = [f \in LockNames |-> "none"]
    /\ InitSave

\* ------------------------------------------------------- AccountManager
\* Account.last_sync setter: writes the first pair's last_sync.
AccountSetLastSync(ls, a, value) ==
    IF Len(PairOrder) > 0 THEN [ls EXCEPT ![a][PairOrder[1]] = value] ELSE ls

\* AccountManager.set_status: the last_sync map after the call at time `at`.
SetStatusLastSync(ls, a, status, error, at) ==
    IF status = IDLE /\ error = None THEN AccountSetLastSync(ls, a, at) ELSE ls

\* AccountManager.set_status(account_id, status, error)
SetStatus(a, status, error) ==
    /\ acctStatus' = [acctStatus EXCEPT ![a] = status]
    /\ acctError' = [acctError EXCEPT ![a] = error]
    /\ lastSync' = SetStatusLastSync(lastSync, a, status, error, now)

\* AccountManager.get_enabled_accounts, in store order
RECURSIVE EnabledAccountsFrom(_)
EnabledAccountsFrom(i) ==
    IF i > Len(AccountOrder) THEN <<>>
    ELSE (IF \E p \in PairIds : PairEnabled(AccountOrder[i], p)
          THEN <<AccountOrder[i]>> ELSE <<>>) \o EnabledAccountsFrom(i + 1)

GetEnabledAccounts == EnabledAccountsFrom(1)

\* ------------------------------------------------------------ helpers
\* index of the next enabled pair after position i in account.sync_pairs, 0 if none
NextEnabledPair(a, i) ==
    LET later == {j \in (i + 1)..Len(PairOrder) : PairEnabled(a, PairOrder[j])}
    IN IF later = {} THEN 0 ELSE CHOOSE j \in later : \A k \in later : j <= k

CurPair(t) == PairOrder[thr[t].idx]

\* a variant whose test under the mutex never finds the key
KeyHeld_NeverFound(k) == FALSE

\* test under the mutex at the top of _sync_account / _sync_single_pair_thread
KeyHeld(k) == k \in active

\* a variant of is_sync_active that never reports a key as active
IsSyncActive_NeverActive(k) == FALSE

\* SyncManager.is_sync_active
IsSyncActive(k) == k \in active

\* the lock key of a thread's run
RunKey(r) == IF r.kind = "acct" THEN AcctKey(r.acct) ELSE PairKey(r.acct, PairOrder[r.idx])

\* a variant in which the loop thread ends with the run it has dispatched
Returned_LoopEnds(t) == FreeThread

\* where a thread goes when its top-level function returns
Returned(t) ==
    IF t \in LoopThreads
    THEN [FreeThread EXCEPT !.pc = "check", !.todo = thr[t].todo, !.tnow = thr[t].tnow]
    ELSE FreeThread

\* ------------------------------------------------------ entry points
\* a loop thread that has been started and has not left _sync_loop
LoopAlive(t) == thr[t].pc \notin {"off", "ended"}

\* SyncManager.start: a new loop thread, bound to _sync_thread, and the watchers
\* of the enabled pairs. The thread of an earlier start() that has not ended is
\* not touched: it lives on beside the new one. No more than two loop threads
\* are followed.
Start ==
    /\ ~running
    /\ ~LoopAlive(LoopThread) \/ ~LoopAlive(PrevLoopThread)
    /\ running' = TRUE
    /\ thr' = IF LoopAlive(LoopThread)
              THEN [thr EXCEPT ![PrevLoopThread] = thr[LoopThread],
                               ![LoopThread] = [FreeThread EXCEPT !.pc = "sleep"]]
              ELSE [thr EXCEPT ![LoopThread] = [FreeThread EXCEPT !.pc = "sleep"]]
    /\ watchers' = {p \in PairIds : \E a \in Accounts : PairEnabled(a, p)}
    /\ UNCHANGED <<active, pending, lastSyncTimes, store, pairStatus, syncInProgress, env>>
    /\ lastCall' = NoCall
    /\ UNCHANGED <<watch, parser, aux>>

\* what stop() left behind: ret tells whether it returned (TRUE) or raised
StopCall(returned) == [key |-> "stop", ret |-> returned]

\* SyncManager.stop: clears the flag, joins _sync_thread for at most 5 seconds
\* and stops the observer. The attribute _sync_thread exists only once start()
\* has run (__init__ sets _thread), so reading it before that raises. A thread
\* in time.sleep(5) leaves the loop within the join; a thread inside a run may
\* outlast it, and stop() returns with the thread alive; a thread between two
\* accounts of a pass is waited for. The debounce timers of the handlers and
\* the _watchers table are left as they are.
Stop ==
    /\ thr[LoopThread].pc # "check"
    /\ running' = FALSE
    /\ IF thr[LoopThread].pc = "off"
       THEN /\ lastCall' = StopCall(FALSE)
            /\ UNCHANGED thr
       ELSE /\ lastCall' = StopCall(TRUE)
            /\ thr' = IF thr[LoopThread].pc = "sleep"
                      THEN [thr EXCEPT ![LoopThread].pc = "ended"]
                      ELSE thr
    /\ UNCHANGED <<watchers, pending, active, lastSyncTimes, store, pairStatus,
                   syncInProgress, env>>
    /\ UNCHANGED <<watch, parser, aux>>

FreeWorkers == {w \in Workers : thr[w].pc = "free"}
NewWorker == CHOOSE w \in FreeWorkers : \A v \in FreeWorkers : w <= v

\* SyncManager.sync_now(account_id), from the GUI or a watcher's debounce timer
SyncNow(a) ==
    IF IsSyncActive(AcctKey(a))
    THEN /\ lastCall' = [key |-> AcctKey(a), ret |-> FALSE]
         /\ UNCHANGED thr
    ELSE /\ FreeWorkers # {}
         /\ thr' = [thr EXCEPT ![NewWorker] =
                       [FreeThread EXCEPT !.pc = "a_lock", !.kind = "acct", !.acct = a]]
         /\ lastCall' = [key |-> AcctKey(a), ret |-> TRUE]

SyncNowCall(a) ==
    /\ SyncNow(a)
    /\ UNCHANGED <<service, active, lastSyncTimes, store, pairStatus, syncInProgress, env,
                   watch, parser, aux>>

\* SyncManager.sync_pair_now(account_id, pair_id)
SyncPairNow(a, i) ==
    IF IsSyncActive(PairKey(a, PairOrder[i]))
    THEN /\ lastCall' = [key |-> PairKey(a, PairOrder[i]), ret |-> FALSE]
         /\ UNCHANGED thr
    ELSE /\ FreeWorkers # {}
         /\ thr' = [thr EXCEPT ![NewWorker] =
                       [FreeThread EXCEPT !.pc = "p_lock", !.kind = "pair", !.acct = a,
                                          !.idx = i]]
         /\ lastCall' = [key |-> PairKey(a, PairOrder[i]), ret |-> TRUE]

SyncPairNowCall(a, i) ==
    /\ SyncPairNow(a, i)
    /\ UNCHANGED <<service, active, lastSyncTimes, store, pairStatus, syncInProgress, env,
                   watch, parser, aux>>

\* SyncManager.pause_account
PauseAccount(a) ==
    /\ SetStatus(a, PAUSED, None)
    /\ UNCHANGED <<service, active, lastSyncTimes, pairStatus, syncInProgress, env, thr>>
    /\ lastCall' = NoCall
    /\ UNCHANGED <<watch, parser, aux>>

\* SyncManager.resume_account
ResumeAccount(a) ==
    /\ SetStatus(a, IDLE, None)
    /\ UNCHANGED <<service, active, lastSyncTimes, pairStatus, syncInProgress, env, thr>>
    /\ lastCall' = NoCall
    /\ UNCHANGED <<watch, parser, aux>>

\* the passage of time
Tick ==
    /\ now < MaxTime
    /\ now' = now + 1
    /\ UNCHANGED <<service, active, lastSyncTimes, store, pairStatus, syncInProgress,
                   rclonePresent, toolOutputs, thr>>
    /\ lastCall' = NoCall
    /\ UNCHANGED <<watch, parser, aux>>

\* the rclone executable disappears from the disk
RemoveTool ==
    /\ rclonePresent
    /\ rclonePresent' = FALSE
    /\ UNCHANGED <<service, active, lastSyncTimes, store, pairStatus, syncInProgress,
                   toolOutputs, now, thr>>
    /\ lastCall' = NoCall
    /\ UNCHANGED <<watch, parser, aux>>


\* ------------------------------------------------------ periodic loop
\* _sync_loop wakes from sleep and enters _check_and_sync
LoopWake(t) ==
    /\ thr[t].pc = "sleep"
    /\ running
    /\ thr' = [thr EXCEPT ![t].pc = "check",
                          ![t].todo = GetEnabledAccounts,
                          ![t].tnow = now]
    /\ UNCHANGED <<service, active, lastSyncTimes, store, pairStatus, syncInProgress, env>>
    /\ lastCall' = NoCall
    /\ UNCHANGED <<watch, parser, aux>>

\* a variant of the dispatch test without the test of the Paused status
IsDue_IgnoringPause(a, tnow) ==
    \/ lastSyncTimes[a] = NoTime
    \/ tnow - lastSyncTimes[a] >= SyncInterval

\* the dispatch test of _check_and_sync for one account
IsDue(a, tnow) ==
    /\ acctStatus[a] # PAUSED
    /\ \/ lastSyncTimes[a] = NoTime
       \/ tnow - lastSyncTimes[a] >= SyncInterval

\* one iteration of the for loop of _check_and_sync
LoopCheck(t) ==
    LET r == thr[t] IN
    /\ t \in LoopThreads
    /\ r.pc = "check"
    /\ IF r.todo = <<>>
       THEN thr' = [thr EXCEPT ![t].pc = "sleep", ![t].tnow = 0]
       ELSE IF IsDue(Head(r.todo), r.tnow)
            THEN thr' = [thr EXCEPT ![t] =
                            [r EXCEPT !.pc = "a_lock", !.kind = "acct",
                                      !.acct = Head(r.todo), !.todo = Tail(r.todo)]]
            ELSE thr' = [thr EXCEPT ![t].todo = Tail(r.todo)]
    /\ UNCHANGED <<service, active, lastSyncTimes, store, pairStatus, syncInProgress, env>>
    /\ lastCall' = NoCall
    /\ UNCHANGED <<watch, parser, aux>>

\* _sync_loop finds the flag cleared at the end of its sleep: the thread ends
LoopExit(t) ==
    /\ t \in LoopThreads
    /\ thr[t].pc = "sleep"
    /\ ~running
    /\ thr' = [thr EXCEPT ![t].pc = "ended"]
    /\ UNCHANGED <<service, active, lastSyncTimes, store, pairStatus, syncInProgress, env>>
    /\ lastCall' = NoCall
    /\ UNCHANGED <<watch, parser, aux>>

\* a debounce timer of the watched account expires while the manager is there
\* to take its callback: lambda acc_id=account.id: self.sync_now(acc_id)
FireTimerSyncNow ==
    /\ \E d \in liveTimers :
         /\ d <= wTime
         /\ liveTimers' = liveTimers \ {d}
    /\ triggers' = triggers + 1
    /\ SyncNow("a1")
    /\ UNCHANGED <<service, active, lastSyncTimes, store, pairStatus, syncInProgress, env>>
    /\ UNCHANGED <<parser, aux, cleanupTimers, wTime, timerRef, pendingDeletes, pendingRenames,
                   movedDirs, enqueued, drained, lastEvent, events, triggersAtDelete, dirMoveTime, lastPath>>

\* --------------------------------------------------- _sync_account
\* with self._lock: return if the key is held, else add it; then on_sync_start,
\* all_success = True and the first enabled pair of the for loop
AcctLock(t) ==
    LET first == NextEnabledPair(thr[t].acct, 0) IN
    /\ thr[t].pc = "a_lock"
    /\ IF KeyHeld(AcctKey(thr[t].acct))
       THEN /\ thr' = [thr EXCEPT ![t] = Returned(t)]
            /\ UNCHANGED active
       ELSE /\ active' = active \cup {AcctKey(thr[t].acct)}
            /\ thr' = [thr EXCEPT ![t].pc = IF first = 0 THEN "a_finish" ELSE "sp_enter",
                                  ![t].idx = first,
                                  ![t].allOk = TRUE,
                                  ![t].cb = "start"]
    /\ UNCHANGED <<service, lastSyncTimes, store, pairStatus, syncInProgress, env>>
    /\ lastCall' = NoCall
    /\ UNCHANGED <<watch, parser, aux>>

\* task.message, _last_sync_times, set_status, on_sync_error, on_sync_complete
AcctFinish(t) ==
    LET a == thr[t].acct IN
    /\ thr[t].pc = "a_finish"
    /\ lastSyncTimes' = [lastSyncTimes EXCEPT ![a] = now]
    /\ SetStatus(a, IF thr[t].allOk THEN IDLE ELSE ERROR, None)
    /\ thr' = [thr EXCEPT ![t].pc = "a_finally", ![t].cb = "complete"]
    /\ UNCHANGED <<service, active, pairStatus, syncInProgress, env>>
    /\ lastCall' = NoCall
    /\ UNCHANGED <<watch, parser, aux>>

\* except Exception: set_status(ERROR, str(e)), on_sync_error
AcctExcept(t) ==
    LET a == thr[t].acct IN
    /\ thr[t].pc = "a_except"
    /\ SetStatus(a, ERROR, thr[t].exc)
    /\ thr' = [thr EXCEPT ![t].pc = "a_finally", ![t].exc = None, ![t].handler = FALSE,
                          ![t].cb = "error"]
    /\ UNCHANGED <<service, active, lastSyncTimes, pairStatus, syncInProgress, env>>
    /\ lastCall' = NoCall
    /\ UNCHANGED <<watch, parser, aux>>

\* a variant of the finally blocks that leaves the key in the set
Discard_Skipped(keys, k) == keys

\* self._active_syncs.discard(key)
Discard(keys, k) == keys \ {k}

\* finally: discard the key
AcctFinally(t) ==
    /\ thr[t].pc = "a_finally"
    /\ active' = Discard(active, AcctKey(thr[t].acct))
    /\ thr' = [thr EXCEPT ![t] = Returned(t)]
    /\ UNCHANGED <<service, lastSyncTimes, store, pairStatus, syncInProgress, env>>
    /\ lastCall' = NoCall
    /\ UNCHANGED <<watch, parser, aux>>

\* ------------------------------------------- _sync_single_pair_thread
\* with self._lock: return if the key is held, else add it; then on_sync_start
PairLock(t) ==
    /\ thr[t].pc = "p_lock"
    /\ IF KeyHeld(PairKey(thr[t].acct, CurPair(t)))
       THEN /\ thr' = [thr EXCEPT ![t] = Returned(t)]
            /\ UNCHANGED active
       ELSE /\ active' = active \cup {PairKey(thr[t].acct, CurPair(t))}
            /\ thr' = [thr EXCEPT ![t].pc = "sp_enter", ![t].cb = "start"]
    /\ UNCHANGED <<service, lastSyncTimes, store, pairStatus, syncInProgress, env>>
    /\ lastCall' = NoCall
    /\ UNCHANGED <<watch, parser, aux>>

\* on_sync_complete(task), set_status(IDLE if success else ERROR)
PairFinish(t) ==
    /\ thr[t].pc = "p_finish"
    /\ SetStatus(thr[t].acct, IF thr[t].ok THEN IDLE ELSE ERROR, None)
    /\ thr' = [thr EXCEPT ![t].pc = "p_finally", ![t].msg = None, ![t].cb = "complete"]
    /\ UNCHANGED <<service, active, lastSyncTimes, pairStatus, syncInProgress, env>>
    /\ lastCall' = NoCall
    /\ UNCHANGED <<watch, parser, aux>>

\* finally: discard the key (the except branch before it only logs)
PairFinally(t) ==
    /\ thr[t].pc = "p_finally"
    /\ active' = Discard(active, PairKey(thr[t].acct, CurPair(t)))
    /\ thr' = [thr EXCEPT ![t] = Returned(t)]
    /\ UNCHANGED <<service, lastSyncTimes, store, pairStatus, syncInProgress, env>>
    /\ lastCall' = NoCall
    /\ UNCHANGED <<watch, parser, aux>>


\* ------------------------------------------------------- ChangeHandler
\* bounds of the watcher model
MaxEvents == 2
MaxWatchTime == 6

\* ChangeHandler.debounce, _rename_window and _directory_move_window, in seconds
Debounce == 2
RenameWindow == 2
DirMoveWindow == 5
\* twice the delay of the cleanup timer, _rename_window + 0.5 seconds
CleanupDelayHalves == 5

WatchedPair == PairOrder[1]

\* str(Path(p).parent)
Parent(p) ==
    CASE p \in {"d/a.txt", "d/b.txt", "d/a.txt.partial"} -> "d"
      [] p \in {"docs/a.txt", "docs/a_renamed.txt", "docs/b.txt", "docs/deleted"} -> "docs"
      [] p = "img/c.png" -> "img"
      [] p = "e/x.txt" -> "e"
      [] p = "f/x.txt" -> "f"
      [] OTHER -> "."

\* Path(p).suffix
Suffix(p) ==
    CASE p \in {"d/a.txt", "d/b.txt", "e/x.txt", "f/x.txt"} -> ".txt"
      [] p \in {"docs/a.txt", "docs/a_renamed.txt", "docs/b.txt"} -> ".txt"
      [] p = "img/c.png" -> ".png"
      [] p = "d/a.txt.partial" -> ".partial"
      [] OTHER -> ""

\* any(pattern in path.lower() for pattern in IGNORE_PATTERNS)
HasIgnorePattern(p) == p = "d/a.txt.partial"

\* Path(p).relative_to(Path(dir)) does not raise
IsUnder(p, dir) == p = dir \/ Parent(p) = dir

\* the moves the file system reports: of a file, and of a directory
FileMoves == {<<"d/a.txt", "d/b.txt">>, <<"d/a.txt.partial", "d/a.txt">>,
              <<"e/x.txt", "f/x.txt">>}
DirMoves == {<<"e", "f">>}

\* the variables of the SyncManager other than the suppression flag
manager == <<running, watchers, active, pending, lastSyncTimes, acctStatus, acctError,
             pairStatus, lastSync, rclonePresent, toolOutputs, now, thr>>

\* ChangeHandler._is_within_moved_directory at time t: the entries that are left
\* after the expired ones are dropped, and whether p lies under one of them
WithinMovedDirectory(p, md, t) ==
    LET live == {m \in md : ~(t - m.time > DirMoveWindow)}
    IN [within |-> \E m \in live : IsUnder(p, m.old) \/ IsUnder(p, m.new),
        moved |-> live]

\* ChangeHandler._should_ignore at time t: the verdict and _moved_directories after it
ShouldIgnore(p, flag, md, t) ==
    IF flag THEN [ignore |-> TRUE, moved |-> md]
    ELSE IF HasIgnorePattern(p) THEN [ignore |-> TRUE, moved |-> md]
    ELSE LET w == WithinMovedDirectory(p, md, t)
         IN [ignore |-> w.within, moved |-> w.moved]

\* a variant of _schedule_callback that starts the new timer without
\* cancelling the previous one
ScheduleCallback_NoCancel(live, ref, t) ==
    [live |-> live \cup {t + Debounce}, ref |-> t + Debounce]

\* ChangeHandler._schedule_callback at time t: cancel self._timer, start a new one
ScheduleCallback(live, ref, t) ==
    [live |-> (live \ {ref}) \cup {t + Debounce}, ref |-> t + Debounce]

\* the part of every event that was not ignored: the debounced trigger is
\* (re)scheduled
Scheduled(p) ==
    LET s == ScheduleCallback(liveTimers, timerRef, wTime) IN
    /\ liveTimers' = s.live
    /\ timerRef' = s.ref
    /\ lastEvent' = wTime
    /\ lastPath' = p
    /\ events' = events + 1

\* an event handler that returns without effect other than on _moved_directories
Ignored(md) ==
    /\ movedDirs' = md
    /\ UNCHANGED <<liveTimers, timerRef, pendingDeletes, pendingRenames, enqueued,
                   lastEvent, events, lastPath>>

\* a variant of get_and_clear_renames that returns the queue without clearing it
GetAndClearRenames_NotCleared(queue) ==
    [ret |-> queue, queue |-> queue, moved |-> {}]

\* ChangeHandler.get_and_clear_renames: what it returns and what it leaves
GetAndClearRenames(queue) ==
    [ret |-> queue, queue |-> <<>>, moved |-> {}]

\* ChangeHandler.on_moved
OnMoved(src, dst, isDir) ==
    /\ events < MaxEvents
    /\ IF isDir
       THEN /\ movedDirs' = {m \in movedDirs : m.old # src}
                              \cup {[old |-> src, new |-> dst, time |-> wTime]}
            /\ pendingRenames' = Append(pendingRenames, <<src, dst>>)
            /\ enqueued' = Append(enqueued, <<src, dst>>)
            /\ Scheduled(src)
            /\ UNCHANGED pendingDeletes
       ELSE LET i1 == ShouldIgnore(src, syncInProgress[WatchedPair], movedDirs, wTime)
                i2 == ShouldIgnore(dst, syncInProgress[WatchedPair], i1.moved, wTime)
            IN IF i1.ignore THEN Ignored(i1.moved)
               ELSE IF i2.ignore THEN Ignored(i2.moved)
               ELSE /\ movedDirs' = i2.moved
                    /\ pendingRenames' = Append(pendingRenames, <<src, dst>>)
                    /\ enqueued' = Append(enqueued, <<src, dst>>)
                    /\ Scheduled(src)
                    /\ UNCHANGED pendingDeletes
    /\ dirMoveTime' = IF isDir THEN wTime ELSE dirMoveTime
    /\ lastCall' = NoCall
    /\ UNCHANGED <<manager, parser, aux, syncInProgress, cleanupTimers, wTime, triggers, drained, triggersAtDelete>>

\* ChangeHandler.on_deleted; the cleanup timer it starts fires in Tock
OnDeleted(p, isDir) ==
    /\ events < MaxEvents
    /\ IF isDir THEN Ignored(movedDirs) /\ UNCHANGED <<triggersAtDelete, cleanupTimers>>
       ELSE LET i == ShouldIgnore(p, syncInProgress[WatchedPair], movedDirs, wTime)
            IN IF i.ignore THEN Ignored(i.moved) /\ UNCHANGED <<triggersAtDelete, cleanupTimers>>
               ELSE /\ movedDirs' = i.moved
                    /\ pendingDeletes' = [pendingDeletes EXCEPT ![p] = wTime]
                    /\ triggersAtDelete' = [triggersAtDelete EXCEPT ![p] = triggers]
                    /\ cleanupTimers' = cleanupTimers \cup {wTime}
                    /\ Scheduled(p)
                    /\ UNCHANGED <<pendingRenames, enqueued>>
    /\ lastCall' = NoCall
    /\ UNCHANGED <<manager, parser, aux, syncInProgress, wTime, triggers, drained, dirMoveTime>>

\* the pending deletes on_created may pair with a create of p at time t
RenameCandidates(p, t) ==
    {q \in WFiles : /\ pendingDeletes[q] # NoTime
                    /\ ~(t - pendingDeletes[q] > RenameWindow)
                    /\ Parent(q) = Parent(p)
                    /\ Suffix(q) = Suffix(p)
                    /\ q # p}

\* ChangeHandler.on_created
OnCreated(p, isDir) ==
    /\ events < MaxEvents
    /\ IF isDir THEN Ignored(movedDirs)
       ELSE LET i == ShouldIgnore(p, syncInProgress[WatchedPair], movedDirs, wTime)
            IN IF i.ignore THEN Ignored(i.moved)
               ELSE /\ movedDirs' = i.moved
                    /\ IF RenameCandidates(p, wTime) = {}
                       THEN UNCHANGED <<pendingDeletes, pendingRenames, enqueued>>
                       ELSE \E q \in RenameCandidates(p, wTime) :
                              /\ pendingRenames' = Append(pendingRenames, <<q, p>>)
                              /\ enqueued' = Append(enqueued, <<q, p>>)
                              /\ pendingDeletes' = [pendingDeletes EXCEPT ![q] = NoTime]
                    /\ Scheduled(p)
    /\ lastCall' = NoCall
    /\ UNCHANGED <<manager, parser, aux, syncInProgress, cleanupTimers, wTime, triggers, drained, triggersAtDelete, dirMoveTime>>

\* ChangeHandler.on_modified
OnModified(p, isDir) ==
    /\ events < MaxEvents
    /\ IF isDir THEN Ignored(movedDirs)
       ELSE LET i == ShouldIgnore(p, syncInProgress[WatchedPair], movedDirs, wTime)
            IN IF i.ignore THEN Ignored(i.moved)
               ELSE /\ movedDirs' = i.moved
                    /\ Scheduled(p)
                    /\ UNCHANGED <<pendingDeletes, pendingRenames, enqueued>>
    /\ lastCall' = NoCall
    /\ UNCHANGED <<manager, parser, aux, syncInProgress, cleanupTimers, wTime, triggers, drained, triggersAtDelete, dirMoveTime>>

\* a debounce timer expires and calls the callback
FireTimer ==
    /\ \E d \in liveTimers :
         /\ d <= wTime
         /\ liveTimers' = liveTimers \ {d}
    /\ triggers' = triggers + 1
    /\ lastCall' = NoCall
    /\ UNCHANGED <<manager, parser, aux, syncInProgress, cleanupTimers, wTime, timerRef, pendingDeletes, pendingRenames,
                   movedDirs, enqueued, drained, lastEvent, events, triggersAtDelete, dirMoveTime, lastPath>>

\* the time, in half seconds, at which the cleanup timer started at time c fires:
\* threading.Timer(self._rename_window + 0.5, ...)
CleanupAt(c) == 2 * c + CleanupDelayHalves

\* a variant of the expiry test with a window as long as the delay of the timer
IsExpired_WindowAsLongAsDelay(recorded, halves) ==
    halves - 2 * recorded > CleanupDelayHalves

\* the expiry test of _cleanup_pending_deletes at a time given in half seconds:
\* now - info["time"] > self._rename_window
IsExpired(recorded, halves) ==
    halves - 2 * recorded > 2 * RenameWindow

\* ChangeHandler._cleanup_pending_deletes run by each of the cleanup timers
\* `fired`, at the time the timer fires
CleanupPendingDeletes(pd, fired) ==
    [p \in WFiles |-> IF pd[p] # NoTime /\ \E c \in fired : IsExpired(pd[p], CleanupAt(c))
                      THEN NoTime ELSE pd[p]]

\* one second passes: no debounce timer is left behind its expiry, and the
\* cleanup timers that expire within the second run
Tock ==
    /\ wTime < MaxWatchTime
    /\ \A d \in liveTimers : d > wTime
    /\ wTime' = wTime + 1
    /\ LET fired == {c \in cleanupTimers : CleanupAt(c) <= 2 * (wTime + 1)}
       IN /\ pendingDeletes' = CleanupPendingDeletes(pendingDeletes, fired)
          /\ cleanupTimers' = cleanupTimers \ fired
    /\ lastCall' = NoCall
    /\ UNCHANGED <<manager, parser, aux, syncInProgress, liveTimers, timerRef, pendingRenames, movedDirs,
                   triggers, enqueued, drained, lastEvent, events, triggersAtDelete, dirMoveTime, lastPath>>

\* _process_pending_renames: the executor drains the queue of the handler
Drain ==
    LET g == GetAndClearRenames(pendingRenames) IN
    /\ pendingRenames' = g.queue
    /\ movedDirs' = g.moved
    /\ drained' = drained \o g.ret
    /\ lastCall' = NoCall
    /\ UNCHANGED <<manager, parser, aux, syncInProgress, cleanupTimers, wTime, liveTimers, timerRef, pendingDeletes,
                   triggers, enqueued, lastEvent, events, triggersAtDelete, dirMoveTime, lastPath>>

\* ChangeHandler.set_sync_in_progress
SetSyncInProgress(flags, p, value) == [flags EXCEPT ![p] = value]

\* the executor sets or clears the suppression flag of the handler
SetFlag(value) ==
    /\ syncInProgress[WatchedPair] # value
    /\ syncInProgress' = SetSyncInProgress(syncInProgress, WatchedPair, value)
    /\ lastCall' = NoCall
    /\ UNCHANGED <<manager, watch, parser, aux>>

\* ------------------------------------------- run_bisync: activity parser
\* bounds of the parser model
MaxParsed == 2
MaxParseTime == 6

\* the age, in seconds, beyond which an entry of recent_events is dropped
ParseWindow == 5

\* A line of the tool is the text "<level>: <side>: <path>: <text>", where the
\* level and the side may be missing. The lines of the claims as they are
\* written, the same lines as rclone logs them, and lines in the two-part format.
ClaimDeleteLine == [level |-> "", side |-> "Path1", path |-> "docs/a.txt", text |-> "Deleted"]
ClaimUploadLine == [level |-> "", side |-> "Path2", path |-> "docs/a_renamed.txt", text |-> "Uploaded"]
ParseLines ==
    {ClaimDeleteLine, ClaimUploadLine,
     [level |-> "INFO", side |-> "Path1", path |-> "docs/a.txt", text |-> "Deleted"],
     [level |-> "INFO", side |-> "Path2", path |-> "docs/a_renamed.txt", text |-> "Uploaded"],
     [level |-> "INFO", side |-> "", path |-> "docs/a.txt", text |-> "Deleted"],
     [level |-> "INFO", side |-> "", path |-> "docs/b.txt", text |-> "Copied (new)"],
     [level |-> "INFO", side |-> "", path |-> "img/c.png", text |-> "Copied (new)"],
     [level |-> "INFO", side |-> "", path |-> "docs/deleted", text |-> "Copied (new)"],
     [level |-> "INFO", side |-> "Path1", path |-> "docs/b.txt", text |-> "Copied (new)"],
     [level |-> "INFO", side |-> "Path2", path |-> "docs/b.txt", text |-> "Copied (new)"]}

\* the words the parser looks for that occur in the lower-cased path
PathWords(p) ==
    CASE p = "docs/a_renamed.txt" -> {"renamed"}
      [] p = "docs/deleted" -> {"deleted"}
      [] OTHER -> {}

\* the words the parser looks for that occur in the lower-cased text
TextWords(x) ==
    CASE x = "Deleted" -> {"deleted"}
      [] x = "Copied (new)" -> {"copied"}
      [] OTHER -> {}

\* the words the parser looks for that occur in line.lower()
LineWords(l) == PathWords(l.path) \cup TextWords(l.text)

\* file_path.split("/")[-1]
FileName(p) ==
    CASE p = "docs/a.txt" -> "a.txt"
      [] p = "docs/a_renamed.txt" -> "a_renamed.txt"
      [] p = "docs/b.txt" -> "b.txt"
      [] p = "img/c.png" -> "c.png"
      [] OTHER -> "deleted"

\* the branch 'elif "INFO" in line' is taken and the line passes its two filters
IsActivityLine(l) ==
    /\ l.level = "INFO"
    /\ LineWords(l) \cap {"changes:", "delta", "synchronizing"} = {}
    /\ LineWords(l) \cap {"copied", "updated", "deleted", "moved", "skipped", "removed"} # {}

\* the action computed for the line: by the format of the line, then refined
\* by the words of the whole line
LineAction(l) ==
    LET byFormat == IF l.side = "Path2" THEN "downloading" ELSE "uploading"
    IN IF LineWords(l) \cap {"deleted", "removing", "removed", "unlink"} # {} THEN "deleted"
       ELSE IF LineWords(l) \cap {"moved", "renamed", "renaming"} # {} THEN "moved"
       ELSE byFormat

\* file_name.lower() is none of the words of rclone
NameAccepted(p) ==
    FileName(p) \notin {"deleted", "copied", "updated", "moved", "skipped", "changes", "renamed"}

\* current_event
CurrentEvent(l, t) ==
    [name |-> FileName(l.path), path |-> l.path, action |-> LineAction(l), time |-> t,
     ext |-> Suffix(l.path), parent |-> Parent(l.path)]

\* the pairing test of the loop over recent_events
Pairs(prev, cur) ==
    /\ \/ prev.action = "deleted" /\ cur.action = "uploading"
       \/ prev.action = "uploading" /\ cur.action = "deleted"
    /\ prev.ext = cur.ext
    /\ prev.parent = cur.parent

\* a variant of the loop that pairs with entries of any age
RECURSIVE Scan_NoExpiry(_, _, _)
Scan_NoExpiry(kept, rest, cur) ==
    IF rest = <<>> THEN [matched |-> FALSE, buffer |-> kept]
    ELSE LET prev == Head(rest) IN
         IF Pairs(prev, cur)
         THEN [matched |-> TRUE, prev |-> prev, buffer |-> kept \o Tail(rest)]
         ELSE Scan_NoExpiry(Append(kept, prev), Tail(rest), cur)

\* a variant of the loop that leaves the entry it has paired in the buffer
RECURSIVE Scan_MatchedKept(_, _, _)
Scan_MatchedKept(kept, rest, cur) ==
    IF rest = <<>> THEN [matched |-> FALSE, buffer |-> kept]
    ELSE LET prev == Head(rest) IN
         IF cur.time - prev.time > ParseWindow THEN Scan_MatchedKept(kept, Tail(rest), cur)
         ELSE IF Pairs(prev, cur)
              THEN [matched |-> TRUE, prev |-> prev, buffer |-> kept \o rest]
              ELSE Scan_MatchedKept(Append(kept, prev), Tail(rest), cur)

\* the loop 'for prev in recent_events[:]': entries older than the window are
\* removed as they are met, and the loop stops at the first entry that pairs
RECURSIVE Scan(_, _, _)
Scan(kept, rest, cur) ==
    IF rest = <<>> THEN [matched |-> FALSE, buffer |-> kept]
    ELSE LET prev == Head(rest) IN
         IF cur.time - prev.time > ParseWindow THEN Scan(kept, Tail(rest), cur)
         ELSE IF Pairs(prev, cur)
              THEN [matched |-> TRUE, prev |-> prev, buffer |-> kept \o Tail(rest)]
              ELSE Scan(Append(kept, prev), Tail(rest), cur)

\* the call of _on_file_activity(account.id, name, action, path)
Activity(name, action, path) == [name |-> name, action |-> action, path |-> path]

\* one iteration of 'for line in bisync_stream(...)' on an output line
ParseLine(l) ==
    /\ Len(history) < MaxParsed
    /\ history' = Append(history, [line |-> l, time |-> pClock])
    /\ IF IsActivityLine(l) /\ NameAccepted(l.path)
       THEN LET cur == CurrentEvent(l, pClock)
                s == Scan(<<>>, recentEvents, cur)
            IN IF s.matched
               THEN /\ recentEvents' = s.buffer
                    /\ activity' = Append(activity,
                           IF cur.action = "uploading"
                           THEN Activity(cur.name, "moved", cur.path)
                           ELSE Activity(s.prev.name, "moved", s.prev.path))
               ELSE /\ recentEvents' = Append(s.buffer, cur)
                    /\ activity' = Append(activity, Activity(cur.name, cur.action, cur.path))
       ELSE UNCHANGED <<recentEvents, activity>>
    /\ lastCall' = NoCall
    /\ UNCHANGED <<manager, aux, syncInProgress, watch, pClock>>

\* one second passes while the tool runs
ParseTock ==
    /\ pClock < MaxParseTime
    /\ pClock' = pClock + 1
    /\ lastCall' = NoCall
    /\ UNCHANGED <<manager, aux, syncInProgress, watch, recentEvents, activity, history>>

\* ------------------------------------------------ _sync_single_pair
\* set_status(account.id, RESYNCING if not pair.last_sync else SYNCING); then
\* _process_pending_renames(pair) drains the handler's queue and attempts a
\* server-side rename for each tuple it got
SpEnter(t) ==
    LET a == thr[t].acct IN
    /\ thr[t].pc = "sp_enter"
    /\ SetStatus(a, IF lastSync[a][CurPair(t)] = NoTime THEN RESYNCING ELSE SYNCING, None)
    /\ thr' = [thr EXCEPT ![t].pc = "sp_pause", ![t].ok = TRUE, ![t].msg = None]
    /\ IF CurPair(t) \in watchers /\ CurPair(t) = WatchedPair
       THEN LET g == GetAndClearRenames(pendingRenames) IN
            /\ pendingRenames' = g.queue
            /\ movedDirs' = g.moved
            /\ drained' = drained \o g.ret
       ELSE UNCHANGED <<pendingRenames, movedDirs, drained>>
    /\ UNCHANGED <<wTime, liveTimers, timerRef, pendingDeletes, triggers, enqueued,
                   lastEvent, events, triggersAtDelete, dirMoveTime, lastPath, cleanupTimers>>
    /\ UNCHANGED <<service, active, lastSyncTimes, pairStatus, syncInProgress, env>>
    /\ lastCall' = NoCall
    /\ UNCHANGED <<parser, aux>>

\* handler = self._watchers.get(path)["handler"]; handler.set_sync_in_progress(True);
\* try: with self._lock: pair.status = SYNCING; account_manager.update(account)
SpPause(t) ==
    /\ thr[t].pc = "sp_pause"
    /\ UNCHANGED <<watch, parser, aux>>
    /\ IF CurPair(t) \in watchers
       THEN /\ syncInProgress' = SetSyncInProgress(syncInProgress, CurPair(t), TRUE)
            /\ thr' = [thr EXCEPT ![t].pc = "sp_invoke", ![t].handler = TRUE, ![t].tier = 1]
       ELSE /\ UNCHANGED syncInProgress
            /\ thr' = [thr EXCEPT ![t].pc = "sp_invoke", ![t].handler = FALSE, ![t].tier = 1]
    /\ pairStatus' = [pairStatus EXCEPT ![thr[t].acct][CurPair(t)] = SYNCING]
    /\ UNCHANGED <<service, active, lastSyncTimes, store, env>>
    /\ lastCall' = NoCall

\* the resync_mode argument of run_bisync in each tier: 1 normal attempt,
\* 2 retry after unlocking, 3 forced resync
AttemptMode(tier, neverSynced) ==
    CASE tier = 1 -> neverSynced
      [] tier = 2 -> FALSE
      [] OTHER -> TRUE

\* the change an update makes to the record in memory: pair.last_sync = now;
\* set_status(IDLE), which also sets last_sync of the first pair; an edit of
\* the settings
ApplyOp(rec, o) ==
    CASE o.op = "last_sync" -> [rec EXCEPT !.last[o.pair] = 1]
      [] o.op = "status" -> [rec EXCEPT !.status = IDLE, !.last[PairOrder[1]] = 1]
      [] OTHER -> [rec EXCEPT !.interval = SyncInterval + 1]

\* update / set_status up to the dictionary built in _save_accounts
SaveSnapshot(w) ==
    /\ saver[w].pc = "idle"
    /\ saver[w].todo # <<>>
    /\ memRecord' = ApplyOp(memRecord, Head(saver[w].todo))
    /\ saver' = [saver EXCEPT ![w] = [pc |-> "snapshot", todo |-> Tail(saver[w].todo),
                                       snap |-> memRecord']]
    /\ lastCall' = NoCall
    /\ UNCHANGED <<manager, syncInProgress, watch, parser, lockFiles, diskRecord>>

\* open(self.accounts_file, "w") truncates the file
SaveOpen(w) ==
    /\ saver[w].pc = "snapshot"
    /\ diskRecord' = EmptyFile
    /\ saver' = [saver EXCEPT ![w].pc = "open"]
    /\ lastCall' = NoCall
    /\ UNCHANGED <<manager, syncInProgress, watch, parser, lockFiles, memRecord>>

\* json.dump and close: the text is written from offset 0; over a text another
\* writer has written since the file was opened, the file holds this text or
\* this text followed by the rest of a longer one
SaveWrite(w) ==
    /\ saver[w].pc = "open"
    /\ \/ diskRecord' = FileOf(saver[w].snap)
       \/ diskRecord.kind # "empty" /\ diskRecord' = CorruptFile
    /\ saver' = [saver EXCEPT ![w] = [@ EXCEPT !.pc = "idle", !.snap = None]]
    /\ lastCall' = NoCall
    /\ UNCHANGED <<manager, syncInProgress, watch, parser, lockFiles, memRecord>>

\* a variant of the sweep that removes nothing
Sweep_Skipped(lf) == lf

\* the proactive sweep of run_bisync: every *.lck older than 300 s is unlinked
Sweep(lf) == [f \in LockNames |-> IF lf[f] = "old" THEN "none" ELSE lf[f]]

\* five minutes pass for a lock file
LockAges(f) ==
    /\ lockFiles[f] = "fresh"
    /\ lockFiles' = [lockFiles EXCEPT ![f] = "old"]
    /\ lastCall' = NoCall
    /\ UNCHANGED <<manager, syncInProgress, watch, parser, memRecord, diskRecord, saver>>

\* a bisync that starts, or one that is killed, leaves its lock file
LockLeft(f) ==
    /\ lockFiles[f] = "none"
    /\ lockFiles' = [lockFiles EXCEPT ![f] = "fresh"]
    /\ lastCall' = NoCall
    /\ UNCHANGED <<manager, syncInProgress, watch, parser, memRecord, diskRecord, saver>>

\* the tool a thread is waiting for writes its lock artifact into the cache
\* directory; the artifact then ages like any other (LockAges) while the tool runs
ToolLocks(t) ==
    /\ thr[t].pc = "sp_tool"
    /\ ~thr[t].holds
    /\ CurPair(t) \in LockNames
    /\ lockFiles[CurPair(t)] = "none"
    /\ lockFiles' = [lockFiles EXCEPT ![CurPair(t)] = "fresh"]
    /\ thr' = [thr EXCEPT ![t].holds = TRUE]
    /\ lastCall' = NoCall
    /\ UNCHANGED <<service, active, lastSyncTimes, store, pairStatus, syncInProgress, env>>
    /\ UNCHANGED <<watch, parser, memRecord, diskRecord, saver>>

\* the sweep, then run_bisync(resync_mode) up to the start of the tool; bisync_stream raises
\* when rclone is not installed or cannot be started
SpInvoke(t) ==
    LET a == thr[t].acct IN
    /\ thr[t].pc = "sp_invoke"
    /\ IF rclonePresent
       THEN thr' = [thr EXCEPT ![t].pc = "sp_tool",
                               ![t].msg = None,
                               ![t].resync = AttemptMode(thr[t].tier,
                                                         lastSync[a][CurPair(t)] = NoTime)]
       ELSE thr' = [thr EXCEPT ![t].pc = "sp_finally",
                               ![t].msg = None,
                               ![t].lock1 = FALSE,
                               ![t].exc = NotInstalledMsg]
    /\ UNCHANGED <<service, active, lastSyncTimes, store, pairStatus, syncInProgress, env>>
    /\ lastCall' = NoCall
    /\ lockFiles' = Sweep(lockFiles)
    /\ UNCHANGED <<watch, parser, memRecord, diskRecord, saver>>

\* a variant of the escalation that goes on to the next tier after a success too
NextTier_IgnoringSuccess(tier, ok, msg) ==
    IF tier < 3 THEN tier + 1 ELSE 0

\* a variant of the escalation (the structure of the 1.0.0 snapshot) that retries
\* only when the message of the first attempt is the lock message
NextTier_RetryOnLockMessage(tier, ok, msg) ==
    IF ok THEN 0
    ELSE IF tier = 1 THEN (IF IsLockMessage(msg) THEN 2 ELSE 3)
    ELSE IF tier = 2 THEN 3
    ELSE 0

\* a variant of the escalation that returns the failure of the retry without
\* the forced resync
NextTier_WithoutResync(tier, ok, msg) ==
    IF ok THEN 0
    ELSE IF tier = 1 THEN 2
    ELSE 0

\* the escalation of _sync_single_pair: the tier that follows an attempt of
\* `tier` that returned (ok, msg); 0 ends the escalation
NextTier(tier, ok, msg) ==
    IF ok THEN 0
    ELSE IF tier = 1 THEN 2
    ELSE IF tier = 2 THEN 3
    ELSE 0

\* the tool runs to its exit and run_bisync returns (inner_success, inner_message);
\* after the last attempt of the run: if success: pair.last_sync = now, update
SpToolExit(t) ==
    /\ thr[t].pc = "sp_tool"
    /\ \E out \in toolOutputs :
         LET stream == BisyncStream(out.lines, out.rc)
             res == RunBisync(stream)
             next == NextTier(thr[t].tier, res.ok, res.msg)
         IN /\ thr' = [thr EXCEPT ![t].lock1 = IF thr[t].tier = 1 THEN HasLockLine(stream)
                                               ELSE thr[t].lock1,
                                  ![t].ok = res.ok,
                                  ![t].holds = FALSE,
                                  ![t].fatal = FirstFatal(stream),
                                  ![t].tried = IF res.ok THEN thr[t].tried
                                               ELSE thr[t].tried \cup {thr[t].tier},
                                  ![t].msg = IF next = 3 THEN None ELSE res.msg,
                                  ![t].tier = next,
                                  ![t].resync = FALSE,
                                  ![t].pc = IF next = 0 THEN "sp_finally" ELSE "sp_invoke"]
            /\ lastSync' = IF next = 0 /\ res.ok
                           THEN [lastSync EXCEPT ![thr[t].acct][CurPair(t)] = now]
                           ELSE lastSync
    /\ UNCHANGED <<service, active, lastSyncTimes, acctStatus, acctError, pairStatus,
                   syncInProgress, env>>
    /\ lastCall' = NoCall
    /\ UNCHANGED <<watch, parser, aux>>

\* a variant of the finally block that leaves the flag as it is
ReleaseFlag_Skipped(flags, p, handler) == flags

\* the finally block: the flag after it
ReleaseFlag(flags, p, handler) ==
    IF handler THEN SetSyncInProgress(flags, p, FALSE) ELSE flags

\* the thread's record when _sync_single_pair returns or raises into its caller;
\* a raised exception, and whether the run had paused a watcher, stay on record
\* until the caller's except / finally block
SpReturn(r) ==
    LET base == [r EXCEPT !.handler = FALSE, !.resync = FALSE, !.lock1 = FALSE, !.tier = 0,
                          !.tried = {}, !.fatal = None]
    IN
    IF r.exc # None
    THEN [base EXCEPT !.pc = IF r.kind = "acct" THEN "a_except" ELSE "p_finally",
                      !.handler = r.handler]
    ELSE IF r.kind = "pair"
    THEN [base EXCEPT !.pc = "p_finish"]
    ELSE LET next == NextEnabledPair(r.acct, r.idx) IN
         [base EXCEPT !.pc = IF next = 0 THEN "a_finish" ELSE "sp_enter",
                      !.idx = IF next = 0 THEN r.idx ELSE next,
                      !.allOk = r.allOk /\ r.ok,
                      !.ok = TRUE,
                      !.msg = None]

\* finally: handler.set_sync_in_progress(False); return or re-raise
SpFinally(t) ==
    /\ thr[t].pc = "sp_finally"
    /\ syncInProgress' = ReleaseFlag(syncInProgress, CurPair(t), thr[t].handler)
    /\ thr' = [thr EXCEPT ![t] = SpReturn(thr[t])]
    /\ UNCHANGED <<service, active, lastSyncTimes, store, pairStatus, env>>
    /\ lastCall' = NoCall
    /\ UNCHANGED <<watch, parser, aux>>

\* ------------------------------------------------------------- system
\* the tool outcomes of the scheduling model: a clean run, and a run that stops
\* on a prior lock file
SchedOutputs ==
    {[lines |-> <<>>, rc |-> 0], [lines |-> <<LockLine>>, rc |-> 1]}

Init ==
    /\ InitProgram
    /\ toolOutputs = SchedOutputs

\* the steps of a thread inside _sync_single_pair
SpStep(t) ==
    \/ SpEnter(t)
    \/ SpPause(t)
    \/ SpInvoke(t)
    \/ SpToolExit(t)
    \/ SpFinally(t)

\* the steps of a thread in _sync_account
AcctStep(t) ==
    \/ AcctLock(t)
    \/ AcctFinish(t)
    \/ AcctExcept(t)
    \/ AcctFinally(t)

\* the steps of a thread in _sync_single_pair_thread
PairStep(t) ==
    \/ PairLock(t)
    \/ PairFinish(t)
    \/ PairFinally(t)

\* On-demand scheduling: sync_now and sync_pair_now from any caller, the worker
\* threads they start, and the runs of those threads.
Next ==
    \/ Start
    \/ \E a \in Accounts : SyncNowCall(a)
    \/ \E a \in Accounts, i \in 1..Len(PairOrder) : SyncPairNowCall(a, i)
    \/ \E t \in Workers : AcctStep(t)
    \/ \E t \in Workers : PairStep(t)
    \/ \E t \in Workers : SpStep(t)

Spec == Init /\ [][Next]_vars

\* The pair executor on every tool output, with the tool disappearing at any
\* time: runs requested one after the other, each when no run is in flight.
InitExec ==
    /\ InitProgram
    /\ toolOutputs = AllOutputs

NoRunInFlight == FreeWorkers = Workers

NextExec ==
    \/ Start
    \/ RemoveTool
    \/ NoRunInFlight /\ \E a \in Accounts, i \in 1..Len(PairOrder) : SyncPairNowCall(a, i)
    \/ \E t \in Workers : PairStep(t)
    \/ \E t \in Workers : SpStep(t)

SpecExec == InitExec /\ [][NextExec]_vars

\* The account store under runs, pause/resume and the passage of time.
NextStore ==
    \/ Tick
    \/ \E a \in Accounts : SyncNowCall(a)
    \/ \E a \in Accounts, i \in 1..Len(PairOrder) : SyncPairNowCall(a, i)
    \/ \E a \in Accounts : PauseAccount(a)
    \/ \E a \in Accounts : ResumeAccount(a)
    \/ \E t \in Workers : AcctStep(t)
    \/ \E t \in Workers : PairStep(t)
    \/ \E t \in Workers : SpStep(t)

SpecStore == Init /\ [][NextStore]_vars

\* The periodic loop over time beside sync_now workers, with the tool
\* disappearing at any time.
NextLoop ==
    \/ Start
    \/ Tick
    \/ RemoveTool
    \/ LoopWake(LoopThread)
    \/ LoopCheck(LoopThread)
    \/ \E a \in Accounts : SyncNowCall(a)
    \/ \E t \in Threads : AcctStep(t)
    \/ \E t \in Threads : SpStep(t)

SpecLoop == Init /\ [][NextLoop]_vars

\* ================================================================ claims
AllKeys == {AcctKey(a) : a \in Accounts} \cup {PairKey(a, p) : a \in Accounts, p \in PairIds}
PairKeys == {PairKey(a, p) : a \in Accounts, p \in PairIds}

\* positions between the insertion of the key and its removal in the finally block
BodyPcs == {"sp_enter", "sp_pause", "sp_invoke", "sp_tool", "sp_finally",
            "a_finish", "a_except", "a_finally", "p_finish", "p_finally"}
InBody(t) == thr[t].pc \in BodyPcs
Holders(k) == {t \in Threads : InBody(t) /\ RunKey(thr[t]) = k}
AtLock(t) == thr[t].pc \in {"a_lock", "p_lock"}

\* C1: for every account key and every "account:pair" key at most one thread is
\* inside the body of a run with that key, and a thread is inside the body only
\* while its key is in the active set; a second run that finds the key present
\* never enters the body.
C1_OneRunPerKey ==
    \A k \in AllKeys : /\ Cardinality(Holders(k)) <= 1
                       /\ (Holders(k) # {} => k \in active)

\* C1 witness: a run holds its key while a second thread with the same key waits
\* at the test under the mutex.
C1_Contention ==
    \E t \in Threads, u \in Threads :
        /\ t # u
        /\ InBody(t)
        /\ AtLock(u)
        /\ RunKey(thr[u]) = RunKey(thr[t])
        /\ RunKey(thr[t]) \in active

\* C2: every call of sync_pair_now that returned accepted gets a run of its own:
\* the worker thread it started never leaves the test under the mutex without
\* running (so two accepted calls are never served by one run).
C2_EveryAcceptedCallRuns ==
    [][\A t \in Workers : thr[t].pc = "p_lock" => thr'[t].pc \in {"p_lock", "sp_enter"}]_vars

C4_FlagHeldForWholeRun ==
    \A t \in Threads :
        (thr[t].pc \in {"sp_invoke", "sp_tool"} /\ thr[t].handler)
            => syncInProgress[CurPair(t)]

\* the threads that have paused the watcher of pair p and not yet passed the
\* finally block of _sync_single_pair
Pausing(p) ==
    {t \in Threads : /\ thr[t].pc \in {"sp_invoke", "sp_tool", "sp_finally"}
                     /\ thr[t].handler
                     /\ CurPair(t) = p}

\* C5: once every run that set the suppression flag of a pair has left
\* _sync_single_pair (by returning success, by returning failure after the last
\* tier, or by an exception raised in any attempt) the flag of the pair is false.
C5_FlagReleasedOnEveryExit ==
    \A p \in PairIds : Pausing(p) = {} => ~syncInProgress[p]

\* C5 witness: a run that had set the flag was left by an exception raised in the
\* retry or the forced resync, and the flag is false.
C5_ReleasedAfterThrow ==
    \E t \in Workers :
        /\ thr[t].pc = "p_finally"
        /\ thr[t].exc = NotInstalledMsg
        /\ thr[t].handler
        /\ ~thr[t].ok
        /\ ~syncInProgress[CurPair(t)]

\* C6: the last_sync of a pair changes only in the step in which a run of that
\* pair ends with success.
C6_LastSyncOnlyBySuccessfulRun ==
    [][\A a \in Accounts, p \in PairIds :
          lastSync'[a][p] # lastSync[a][p]
            => \E t \in Threads : /\ thr[t].pc = "sp_tool"
                                  /\ thr[t].acct = a
                                  /\ CurPair(t) = p
                                  /\ thr'[t].pc = "sp_finally"
                                  /\ thr'[t].ok]_vars

\* C7: the attempts of a run are made in the order normal attempt (tier 1), retry
\* without resync (tier 2), forced resync (tier 3): a run starts at tier 1, a
\* successful attempt ends the run with success, a further attempt follows only
\* a failed one and is of a later tier, and no tier lies beyond the third, so a
\* run invokes the tool at most three times.
C7_EscalationOrder ==
    [][\A t \in Threads :
          /\ (thr[t].pc = "sp_pause" /\ thr'[t].pc = "sp_invoke") => thr'[t].tier = 1
          /\ (thr[t].pc = "sp_invoke" /\ thr'[t].pc = "sp_tool")
                => /\ thr[t].tier \in 1..3
                   /\ (thr[t].tier = 2 => ~thr'[t].resync)
                   /\ (thr[t].tier = 3 => thr'[t].resync)
          /\ (thr[t].pc = "sp_tool" /\ thr'[t].pc # "sp_tool" /\ thr'[t].ok)
                => (thr'[t].pc = "sp_finally" /\ thr'[t].exc = None)
          /\ (thr[t].pc = "sp_tool" /\ thr'[t].pc = "sp_invoke")
                => /\ ~thr'[t].ok
                   /\ thr'[t].tier > thr[t].tier
                   /\ thr'[t].tier <= 3]_vars

\* C7 witness: the third invocation of a run, the forced resync, is running.
C7_ThirdInvocation ==
    \E t \in Threads : thr[t].pc = "sp_tool" /\ thr[t].tier = 3 /\ thr[t].resync

\* C8: when the output of the first attempt contained the prior-lock line, the
\* run makes the retry without resync next, makes it once, and goes on to the
\* forced resync only if the retry failed.
C8_LockLineRetriedOnce ==
    [][\A t \in Threads :
          /\ (thr[t].pc = "sp_tool" /\ thr[t].tier = 1 /\ thr'[t].pc # "sp_tool"
                /\ thr'[t].lock1)
                => (thr'[t].pc = "sp_invoke" /\ thr'[t].tier = 2)
          /\ (thr[t].pc = "sp_invoke" /\ thr[t].tier = 2 /\ thr[t].lock1
                /\ thr'[t].pc = "sp_tool")
                => ~thr'[t].resync
          /\ (thr[t].pc = "sp_tool" /\ thr[t].tier = 2 /\ thr[t].lock1
                /\ thr'[t].pc # "sp_tool")
                => IF thr'[t].ok THEN thr'[t].pc = "sp_finally"
                   ELSE thr'[t].pc = "sp_invoke" /\ thr'[t].tier = 3]_vars

\* C8 witness: the retry of a run whose first output contained the prior-lock
\* line has failed and the run goes on to the forced resync.
C8_RetryFailed ==
    \E t \in Threads : /\ thr[t].pc = "sp_invoke"
                       /\ thr[t].tier = 3
                       /\ thr[t].lock1

\* C9: an attempt that fails with the authentication error text ends the run:
\* no further attempt is made.
C9_AuthErrorNotRetried ==
    [][\A t \in Threads :
          (thr[t].pc = "sp_tool" /\ thr'[t].msg = AuthLine) => thr'[t].pc = "sp_finally"]_vars

\* C10: the periodic loop dispatches an account whose run failed because the
\* tool is missing only when its interval has elapsed since that run, never as
\* an account that has no last dispatch time.
C10_MissingToolNotRedispatched ==
    [][(/\ thr[LoopThread].pc = "check"
        /\ thr'[LoopThread].pc = "a_lock"
        /\ acctError[thr'[LoopThread].acct] = NotInstalledMsg)
          => lastSyncTimes[thr'[LoopThread].acct] # NoTime]_vars

\* C11: the step that ends a run (the finally block of _sync_account or of
\* _sync_single_pair_thread, after success, failure or an exception) leaves the
\* account status Idle or Error and no pair of the account Syncing or Resyncing.
C11_RunEndsIdleOrError ==
    [][\A t \in Threads :
          (thr[t].pc \in {"a_finally", "p_finally"} /\ thr'[t].pc \in {"free", "check"})
            => /\ acctStatus'[thr[t].acct] \in {IDLE, ERROR}
               /\ \A p \in PairIds :
                     pairStatus'[thr[t].acct][p] \notin {SYNCING, RESYNCING}]_vars

\* C12: in a whole-account run, when _sync_single_pair is left for a pair that
\* is not the last enabled one (by returning success or failure, or by raising)
\* the run goes on with the next enabled pair in pair order.
C12_SiblingPairsStillSynced ==
    [][\A t \in Threads :
          (/\ thr[t].kind = "acct"
           /\ thr[t].pc = "sp_finally"
           /\ thr'[t].pc # "sp_finally"
           /\ NextEnabledPair(thr[t].acct, thr[t].idx) # 0)
            => /\ thr'[t].pc = "sp_enter"
               /\ thr'[t].idx = NextEnabledPair(thr[t].acct, thr[t].idx)]_vars

\* C13: the loop thread only sleeps and checks which accounts are due: every
\* run it dispatches executes on a worker thread, so the loop thread itself is
\* never inside _sync_account or waiting for the tool.
C13_LoopDispatchesToWorkers ==
    thr[LoopThread].pc \in {"off", "sleep", "check"}

\* The periodic loop alone, over time, with accounts paused and resumed.
NextTick ==
    \/ Start
    \/ Tick
    \/ LoopWake(LoopThread)
    \/ LoopCheck(LoopThread)
    \/ \E a \in Accounts : PauseAccount(a)
    \/ \E a \in Accounts : ResumeAccount(a)
    \/ AcctStep(LoopThread)
    \/ SpStep(LoopThread)

SpecTick == Init /\ [][NextTick]_vars

\* the accounts of a sequence
Range(seq) == {seq[i] : i \in 1..Len(seq)}

NextWatch ==
    \/ \E m \in FileMoves : OnMoved(m[1], m[2], FALSE)
    \/ \E m \in DirMoves : OnMoved(m[1], m[2], TRUE)
    \/ \E p \in WFiles : OnDeleted(p, FALSE)
    \/ \E p \in WDirs : OnDeleted(p, TRUE)
    \/ \E p \in WFiles : OnCreated(p, FALSE)
    \/ \E p \in WDirs : OnCreated(p, TRUE)
    \/ \E p \in WFiles : OnModified(p, FALSE)
    \/ \E p \in WDirs : OnModified(p, TRUE)
    \/ FireTimer
    \/ Tock
    \/ Drain
    \/ \E v \in BOOLEAN : SetFlag(v)

SpecWatch == Init /\ [][NextWatch]_vars

\* ---------------------------------------------------------------- C15
\* C15: every step keeps the tuples enqueued so far equal to the tuples returned
\* by the drains so far followed by the tuples still queued, in order, so that
\* each enqueued tuple is returned by exactly one drain; and a drain that
\* returns tuples returns the whole queue and leaves the queue and the
\* directory-move tracking empty.
C15_DrainReturnsEachTupleOnce ==
    [][/\ enqueued' = drained' \o pendingRenames'
       /\ drained' # drained
            => /\ drained' = drained \o pendingRenames
               /\ pendingRenames' = <<>>
               /\ movedDirs' = {}]_vars

\* a drain has returned a directory move and a later rename is queued
C15_DrainedThenQueuedAgain ==
    /\ drained = << <<"e", "f">> >>
    /\ pendingRenames = << <<"d/a.txt", "d/b.txt">> >>
    /\ movedDirs = {}

\* ---------------------------------------------------------------- C16
\* C16: whenever on_created pairs the created file with a pending delete (it
\* enqueues the tuple (deleted, created) and removes the delete record), the
\* delete is not older than the rename window, exactly that one tuple is added
\* to the queue, and the trigger of the delete has not fired on its own: no
\* trigger was delivered between the delete and the create.
C16_DeleteCreateOneTrigger ==
    [][\A q, p \in WFiles :
         (/\ pendingDeletes[q] # NoTime
          /\ pendingDeletes'[q] = NoTime
          /\ enqueued' = Append(enqueued, <<q, p>>))
           => /\ wTime - pendingDeletes[q] <= RenameWindow
              /\ pendingRenames' = Append(pendingRenames, <<q, p>>)
              /\ triggers = triggersAtDelete[q]]_vars

\* ---------------------------------------------------------------- C17
\* the files under the old or the new path of a directory that can be moved
MovedChildren ==
    {p \in WFiles : \E m \in DirMoves : IsUnder(p, m[1]) \/ IsUnder(p, m[2])}

\* the tuples of queue q
Tuples(q) == {q[i] : i \in 1..Len(q)}

\* C17: the move of a directory enqueues exactly one tuple, for the directory,
\* and leaves exactly one trigger pending; and in every step taken in the 5 s
\* that follow a directory move, other than a directory move, no tuple with a
\* file of the directory is enqueued, no pending-delete record is made for
\* such a file, and no event of such a file schedules a trigger.
C17_ChildrenSuppressedForWindow ==
    [][/\ (events' # events /\ lastPath' \in WDirs)
            => /\ \E m \in DirMoves : enqueued' = Append(enqueued, m)
               /\ Cardinality(liveTimers') = 1
       /\ (dirMoveTime # NoTime /\ wTime - dirMoveTime <= DirMoveWindow
           /\ dirMoveTime' = dirMoveTime /\ ~(events' # events /\ lastPath' \in WDirs))
            => \A c \in MovedChildren :
                 /\ pendingDeletes'[c] # pendingDeletes[c] => pendingDeletes'[c] = NoTime
                 /\ events' # events => lastPath' # c
                 /\ \A r \in Tuples(enqueued') :
                      (r[1] = c \/ r[2] = c) => r \in Tuples(enqueued)]_vars

\* ---------------------------------------------------------------- C18
\* C18: at most one debounced trigger is pending at any time; an event that is
\* not ignored leaves exactly one pending, due one quiet period after it; and
\* a trigger fires only when the quiet period has elapsed since the last such
\* event and leaves none pending, so that the events of a burst, each less than
\* the quiet period after the one before, share one trigger.
C18_SingleDebouncedTrigger ==
    [][/\ Cardinality(liveTimers') <= 1
       /\ events' # events => liveTimers' = {wTime + Debounce}
       /\ triggers' # triggers
            => /\ triggers' = triggers + 1
               /\ lastEvent # NoTime
               /\ wTime - lastEvent >= Debounce
               /\ liveTimers' = {}]_vars

\* a burst of events that ended one second after it began has produced its
\* single trigger, two seconds after its last event
C18_BurstOneTrigger ==
    /\ events = MaxEvents
    /\ lastEvent = 1
    /\ wTime = 3
    /\ triggers = 1
    /\ liveTimers = {}

\* The parser of the tool's output during one run: lines arrive at any time.
NextParse ==
    \/ \E l \in ParseLines : ParseLine(l)
    \/ ParseTock

SpecParse == Init /\ [][NextParse]_vars

\* ---------------------------------------------------------------- C19
\* a line that reports a delete, and a line that reports an upload
IsDeleteLine(l) == l.text = "Deleted"
IsUploadLine(l) == l.text \in {"Uploaded", "Copied (new)"}

\* the 'moved' events among the activity events
MovedEvents == {i \in 1..Len(activity) : activity[i].action = "moved"}

\* C19: when the run's output so far is a delete line and an upload line, in
\* either order, for two files of one directory with one extension, not more
\* than 5 s apart, the parser has emitted exactly one 'moved' event, that event
\* carries the name and path of the uploaded file, and the buffer entry of the
\* line that came first has been removed.
C19_DeleteUploadCorrelated ==
    \A d, u \in ParseLines :
      (/\ IsDeleteLine(d) /\ IsUploadLine(u)
       /\ Suffix(d.path) = Suffix(u.path) /\ Parent(d.path) = Parent(u.path)
       /\ Len(history) = 2
       /\ {history[1].line, history[2].line} = {d, u}
       /\ history[2].time - history[1].time <= ParseWindow)
        => /\ Cardinality(MovedEvents) = 1
           /\ \A i \in MovedEvents :
                activity[i] = Activity(FileName(u.path), "moved", u.path)
           /\ recentEvents = <<>>

\* ---------------------------------------------------------------- C20
\* the buffer holds an entry not older than the window that pairs with cur
HasCounterpart(cur) ==
    \E i \in 1..Len(recentEvents) :
      /\ cur.time - recentEvents[i].time <= ParseWindow
      /\ Pairs(recentEvents[i], cur)

\* C20: every line adds at most one activity event; and a line from which a
\* file event is extracted while the buffer holds no counterpart of it within
\* 5 s makes the event the last entry of the buffer and emits it at once with
\* the action extracted from the line.
C20_UnmatchedEmittedLiterally ==
    [][/\ Len(activity') <= Len(activity) + 1
       /\ \A l \in ParseLines :
            (/\ history' = Append(history, [line |-> l, time |-> pClock])
             /\ IsActivityLine(l) /\ NameAccepted(l.path)
             /\ ~HasCounterpart(CurrentEvent(l, pClock)))
              => /\ recentEvents' # <<>>
                 /\ recentEvents'[Len(recentEvents')] = CurrentEvent(l, pClock)
                 /\ activity' = Append(activity,
                        Activity(FileName(l.path), LineAction(l), l.path))]_vars

\* a delete and, more than 5 s later, an upload in the same directory: both
\* were emitted with their own actions and the entry of the delete was dropped
C20_LateUploadNotPaired ==
    /\ Len(history) = 2
    /\ history[2].time - history[1].time > ParseWindow
    /\ activity = <<Activity("a.txt", "deleted", "docs/a.txt"),
                    Activity("b.txt", "uploading", "docs/b.txt")>>
    /\ Len(recentEvents) = 1

\* The pair executor with lock files appearing and ageing in the cache directory.
NextSweep ==
    \/ NextExec
    \/ \E f \in LockNames : LockAges(f)
    \/ \E f \in LockNames : LockLeft(f)

SpecSweep == InitExec /\ [][NextSweep]_vars

NextSave ==
    \/ \E w \in Writers : SaveSnapshot(w)
    \/ \E w \in Writers : SaveOpen(w)
    \/ \E w \in Writers : SaveWrite(w)

SpecSave == Init /\ [][NextSave]_vars

\* ---------------------------------------------------------------- C22
\* C22: when every update of the runs and of the user has completed, the
\* stored record is the record in memory, which holds every update.
C22_StoredRecordHasEveryUpdate ==
    (\A w \in Writers : saver[w].pc = "idle" /\ saver[w].todo = <<>>)
      => diskRecord = FileOf(memRecord)

\* ---------------------------------------------------------------- C23
\* C23: every run that invoked on_sync_start invokes on_sync_complete or
\* on_sync_error before it ends, on every exit path: a thread that leaves its
\* finally block has "complete" or "error" as the last callback of its run.
C23_StartedRunReportsItsEnd ==
    [][\A t \in Workers :
          (thr[t].pc \in {"a_finally", "p_finally"} /\ thr'[t].pc = "free")
              => thr[t].cb \in {"complete", "error"}]_vars

\* ---------------------------------------------------------------- C24
\* C24: the retry in Normal mode that follows the first attempt is performed if
\* and only if the first attempt failed with a message that matches the lock
\* pattern; a first attempt that failed with any other message is followed by
\* the forced resync.
C24_RetryIffLockMessage ==
    [][\A t \in Workers :
          (thr[t].pc = "sp_tool" /\ thr[t].tier = 1 /\ ~thr'[t].ok)
              => /\ (thr'[t].tier = 2) <=> IsLockMessage(thr'[t].msg)
                 /\ thr'[t].tier \in {2, 3}]_vars

NextRename ==
    \/ Start
    \/ NoRunInFlight /\ \E a \in Accounts, i \in 1..Len(PairOrder) : SyncPairNowCall(a, i)
    \/ \E t \in Workers : PairStep(t)
    \/ \E t \in Workers : SpStep(t)
    \/ \E m \in FileMoves : OnMoved(m[1], m[2], FALSE)
    \/ \E m \in DirMoves : OnMoved(m[1], m[2], TRUE)

SpecRename == Init /\ [][NextRename]_vars

\* C26: when a run of the watched pair starts the bulk tool, every rename tuple
\* enqueued so far has been drained for a server-side rename, the tuples
\* enqueued after the run's drain included.
C26_RenamesDrainedBeforeTool ==
    [][\A t \in Workers :
          (/\ thr[t].pc = "sp_invoke" /\ thr'[t].pc = "sp_tool"
           /\ CurPair(t) = WatchedPair /\ thr[t].handler)
              => drained = enqueued]_vars

\* ---------------------------------------------------------------- C27
\* C27: while the suppression flag is set, no step enqueues a rename tuple,
\* records a pending delete or a directory move, or starts a debounce timer.
C27_NothingRecordedWhileSuppressed ==
    [][syncInProgress[WatchedPair]
          => /\ enqueued' = enqueued
             /\ \A p \in WFiles : pendingDeletes'[p] \in {NoTime, pendingDeletes[p]}
             /\ movedDirs' \subseteq movedDirs
             /\ liveTimers' \subseteq liveTimers]_vars

\* ---------------------------------------------------------------- C28
\* C28: once an attempt has read a fatal line, it ends failed with that line as
\* its message: a run that returns after its last attempt read a fatal line
\* returns a failure whose message is the first fatal line of that attempt.
C28_FirstFatalLineIsTheMessage ==
    \A t \in Workers :
        (thr[t].pc = "sp_finally" /\ thr[t].exc = None /\ thr[t].fatal # None)
            => ~thr[t].ok /\ thr[t].msg = thr[t].fatal

\* ---------------------------------------------------------------- C29
\* the steps of the loop thread: _sync_loop, _check_and_sync and the runs it
\* makes itself
LoopStep ==
    \/ LoopWake(LoopThread)
    \/ LoopCheck(LoopThread)
    \/ AcctStep(LoopThread)
    \/ SpStep(LoopThread)

\* The periodic loop alone with a loop thread that is scheduled again and again
\* and a tool that exits.
SpecTickFair == SpecTick /\ WF_vars(LoopStep)

C30_NoRecordOutlivesItsExpiry ==
    \A p \in WFiles :
        pendingDeletes[p] # NoTime
            => /\ 2 * wTime < CleanupAt(pendingDeletes[p])
               /\ pendingDeletes[p] \in cleanupTimers

\* a delete recorded after the first trigger and matched by no create is gone
\* after its cleanup timer has fired
C30_UnmatchedDeleteCleanedUp ==
    /\ triggersAtDelete["d/a.txt"] = 1
    /\ pendingDeletes["d/a.txt"] = NoTime
    /\ cleanupTimers = {}
    /\ enqueued = <<>>
    /\ wTime = 5

\* ---------------------------------------------------------------- C31
\* C31: the bulk tool never runs twice at the same time for one pair: no two
\* threads are in the tool for the same pair of the same account.
C31_OneToolPerPair ==
    \A t \in Threads, u \in Threads :
        (/\ t # u
         /\ thr[t].pc = "sp_tool" /\ thr[u].pc = "sp_tool"
         /\ thr[t].acct = thr[u].acct)
            => thr[t].idx # thr[u].idx

\* ---------------------------------------------------------------- C32
\* C32: when a line of the failed first attempt matched the lock pattern, the
\* message the escalation tests is a lock message, so that the lock artifact is
\* removed before the retry: no later fatal line of the output masks it.
C32_LockMessageNotMasked ==
    [][\A t \in Workers :
          (/\ thr[t].pc = "sp_tool" /\ thr[t].tier = 1
           /\ thr'[t].tier = 2 /\ thr'[t].lock1)
              => IsLockMessage(thr'[t].msg)]_vars

\* ---------------------------------------------------------------- C33
\* C33: the status of a Paused account stays Paused until resume_account: the
\* only step that takes the status away from Paused is the call of
\* resume_account, which sets Idle and is not a step of a run.
C33_PausedUntilResumed ==
    [][\A a \in Accounts :
          (acctStatus[a] = PAUSED /\ acctStatus'[a] # PAUSED)
              => (acctStatus'[a] = IDLE /\ thr' = thr)]_vars

\* ---------------------------------------------------------------- C34
\* Manual runs of the two pairs side by side, with the lock artifacts the tools
\* write and the time that passes while they run.
NextLocks ==
    \/ \E a \in Accounts, i \in 1..Len(PairOrder) : SyncPairNowCall(a, i)
    \/ \E t \in Workers : PairStep(t)
    \/ \E t \in Workers : SpStep(t)
    \/ \E t \in Workers : ToolLocks(t)
    \/ \E f \in LockNames : LockAges(f)

SpecLocks == Init /\ [][NextLocks]_vars

\* C34: the lock artifact of a tool that is still running is not removed by
\* the cleanup of a run of a different pair.
C34_LiveLockOfOtherPairKept ==
    [][\A t \in Workers :
          (thr[t].pc = "sp_tool" /\ thr[t].holds /\ thr'[t].pc = "sp_tool")
              => lockFiles'[CurPair(t)] # "none"]_vars

\* ---------------------------------------------------------------- C35
\* the events emitted with the action of their own line
LiteralEvents == {i \in 1..Len(activity) : activity[i].action # "moved"}

C36_NoKeyWithoutRun ==
    /\ \A k \in active : Holders(k) # {}
    /\ (\A t \in Threads : ~InBody(t)) => active = {}

\* a run of the account ended with the exception of the missing tool, its key
\* is out of the set, and the next sync_now of the account has been accepted
C36_AcceptedAfterException ==
    /\ acctError["a1"] = NotInstalledMsg
    /\ active = {}
    /\ lastCall = [key |-> AcctKey("a1"), ret |-> TRUE]
    /\ \E t \in Workers : thr[t].pc = "a_lock"

\* ---------------------------------------------------------------- C37
\* The service started and stopped any number of times: the loop threads and
\* their runs, and the watcher of the account with its debounce timers. The
\* observer delivers events only while it runs; one event is followed, and the
\* time passes while its timer is pending.
NextService ==
    \/ Start
    \/ Stop
    \/ \E t \in LoopThreads : LoopWake(t)
    \/ \E t \in LoopThreads : LoopCheck(t)
    \/ \E t \in LoopThreads : LoopExit(t)
    \/ \E t \in Threads : AcctStep(t)
    \/ \E t \in Threads : SpStep(t)
    \/ running /\ events = 0 /\ OnModified("d/a.txt", FALSE)
    \/ liveTimers # {} /\ Tock
    \/ FireTimerSyncNow

SpecService == Init /\ [][NextService]_vars

\* C37: stop() never raises, whatever the state of the service, the state before
\* the first start() included, and leaves the service not running.
C37_StopNeverRaises ==
    lastCall.key = "stop" => (lastCall.ret /\ ~running)

\* ---------------------------------------------------------------- C38
\* C38: whatever the sequence of start() and stop() calls, at most one loop
\* thread is alive inside _sync_loop at any time.
C38_OneLoopThread ==
    Cardinality({t \in LoopThreads : LoopAlive(t)}) <= 1

\* ---------------------------------------------------------------- C39
\* C39: once stop() has returned and until start() is called again, no thread
\* begins a run of an account: not the loop thread, not a debounce timer that
\* was pending, not a later event of the watcher.
C39_NoRunAfterStop ==
    [][(~running /\ ~running')
          => \A t \in Threads : thr'[t].pc = "a_lock" => thr[t].pc = "a_lock"]_vars

====
